---- MODULE Spec2Model ----
(***************************************************************************)
(* OmniTiles DWM tag (src/dwm_tag/src/main.c): the BLE-to-SPI bridge.      *)
(*                                                                         *)
(* Three execution contexts share the program's statics:                   *)
(*   - the bridge loop (main's while(1)), one step per shared access;      *)
(*   - the Bluetooth callback context (bt_receive_cb, connected,           *)
(*     disconnected), callbacks serialised among themselves but            *)
(*     interleaved statement by statement with the bridge loop;            *)
(*   - the UWB thread (uwb_thread_entry), one step per store.              *)
(* C byte index i of a buffer is index i+1 of the sequence modelling it.   *)
(***************************************************************************)
EXTENDS Integers, Sequences, FiniteSets, TLC

(* ------------------------- program constants -------------------------- *)
SPI_BUF_SIZE == 128
CMD_START_BYTE == 165
CMD_M1_BRAKE == 50
CMD_M2_BRAKE == 66
MSGQ_MAX_MSGS == 32
NUS_SEND_INTERVAL_MS == 50
NUS_SEND_BACKOFF_MS == 3000
TELEMETRY_MSG_ID == 96
UWB_TICK_MOD == 200
NULL == 0
UINT8_MOD == 256
UINT16_MOD == 256 * 256

(* --------------------------- model bounds ----------------------------- *)
\* Spec: messages the peer sends (the queue holds 32: two more overflow
\* it after one pop), bridge-loop iterations, connections established
MaxMsgs == 34
MaxIter == 2
MaxConns == 1
\* SpecRelay: bridge-loop iterations, connections established, advances
\* of the uptime clock
RelayIter == 2
RelayConns == 2
MaxTicks == 1
\* SpecTelemetry: bridge-loop iterations, passes of the UWB thread's loop
TelIter == 2
MaxUwb == 1
\* SpecInbound: messages the peer sends, bridge-loop iterations
InboundMsgs == 2
InboundIter == 2
\* SpecLive: messages the peer sends (33 overflow the queue), bridge-loop
\* iterations, connections established
LiveMsgs == 33
LiveIter == 2
LiveConns == 1

VARIABLES
  \* program statics
  msgq,                       \* ble_msgq: the frames queued, oldest first
  tx_buffer, rx_buffer,
  send_brake_on_disconnect, send_brake_on_queue_full,
  current_conn,
  last_nus_send_ms, nus_send_backoff_until_ms,
  uwb_distances_mm, tick,
  drdy,                       \* level of the DRDY pin
  \* bridge loop: position and locals
  pc, ret, conn_read, now, d0, d1, d2,
  \* Bluetooth callback context: position and the conn argument
  cb, cb_conn,
  \* UWB thread: position
  uwb_pc,
  \* environment
  link,                       \* the connection the stack holds, NULL if none
  refs,                       \* connections the program holds a reference on
  boot,                       \* k_uptime_get_32() when the loop starts
  clock,                      \* ms since the loop started
  nconn, nmsgs, nticks, nuwb, iter,
  \* observation of the run
  accepted,                   \* messages whose push was accepted, in order
  popped,                     \* frames k_msgq_get returned, in order
  wire,                       \* the wired transaction of the current iteration
  nus,                        \* the bt_nus_send call of the current iteration
  sub,                        \* latches consumed by the current iteration
  rejSince,                   \* a rejected push returned since the last transaction
  stopped,                    \* the brake went out since the link dropped
  discDue, discStops,         \* since the last disconnect: the iteration the
                              \* brake is due in, transactions that carried it
  discTaken,                  \* this iteration cleared the latch that disconnect set
  okAt,                       \* clock of the last successful send
  failAt, failAny,            \* clock of the last failed send (failAt: cleared
                              \* with the backoff by disconnected)
  fullTaken,                  \* this iteration cleared the latch the last
                              \* rejected push set
  nsetD, nsetF,               \* stores of TRUE into each latch since the loop
                              \* last cleared it (2 stands for two or more)
  late,                       \* a latch was set since this iteration's first test
  latePrev,                   \* late, as the last test of line 273 found it
  latchRun,                   \* pushes accepted before the rejection that last
                              \* set the overflow latch: names its run
  takenRun,                   \* the run whose latch this iteration cleared
  stopRun, dupStop,           \* the run the last transmitted overflow brake
                              \* answered; a run was answered twice
  pendStop                    \* a latch was set and no brake went out since

progVars == <<msgq, tx_buffer, rx_buffer, send_brake_on_disconnect,
              send_brake_on_queue_full, current_conn, last_nus_send_ms,
              nus_send_backoff_until_ms, uwb_distances_mm, tick, drdy>>
ctlVars  == <<pc, ret, conn_read, now, d0, d1, d2, cb, cb_conn, uwb_pc>>
envVars  == <<link, refs, boot, clock, nconn, nmsgs, nticks, nuwb, iter>>
obsVars  == <<accepted, popped, wire, nus, sub, rejSince, stopped, discDue,
              discStops, discTaken, okAt, failAt, failAny>>
latVars  == <<fullTaken, nsetD, nsetF, late, latePrev, latchRun, takenRun, stopRun,
              dupStop, pendStop>>
vars     == <<progVars, ctlVars, envVars, obsVars, latVars>>

(* ------------------------------ frames -------------------------------- *)
\* byte i (C index) of a buffer
At(buf, i) == buf[i + 1]

\* memset(buf, 0, SPI_BUF_SIZE)
ZeroFrame == [i \in 1..SPI_BUF_SIZE |-> 0]

\* the brake without the stores of lines 278-280: M1 only
WriteBrake_m1_only(buf) ==
  LET b == [buf EXCEPT ![1] = CMD_START_BYTE, ![2] = CMD_M1_BRAKE,
                       ![3] = CMD_M1_BRAKE]
  IN  [i \in 1..SPI_BUF_SIZE |-> IF i > 6 THEN 0 ELSE b[i]]

\* the M1+M2 brake written over a buffer: six stores, then
\* memset(buf + 6, 0, SPI_BUF_SIZE - 6)
WriteBrake(buf) ==
  LET b == [buf EXCEPT ![1] = CMD_START_BYTE, ![2] = CMD_M1_BRAKE,
                       ![3] = CMD_M1_BRAKE,   ![4] = CMD_START_BYTE,
                       ![5] = CMD_M2_BRAKE,   ![6] = CMD_M2_BRAKE]
  IN  [i \in 1..SPI_BUF_SIZE |-> IF i > 6 THEN 0 ELSE b[i]]

\* temp_buf without the memset of line 110: the tail keeps what the stack held
TempBuf_no_memset(data) ==
  LET len      == Len(data) % UINT16_MOD
      copy_len == IF len > SPI_BUF_SIZE THEN SPI_BUF_SIZE ELSE len
  IN  [i \in 1..SPI_BUF_SIZE |-> IF i <= copy_len THEN data[i] ELSE 204]

\* temp_buf of bt_receive_cb: memcpy of copy_len bytes, memset of the rest
TempBuf(data) ==
  LET len      == Len(data) % UINT16_MOD
      copy_len == IF len > SPI_BUF_SIZE THEN SPI_BUF_SIZE ELSE len
  IN  [i \in 1..SPI_BUF_SIZE |-> IF i <= copy_len THEN data[i] ELSE 0]

\* a queue that takes one frame more than MSGQ_MAX_MSGS
k_msgq_put_over(q, buf) ==
  IF Len(q) <= MSGQ_MAX_MSGS
    THEN [rc |-> 0, q |-> Append(q, buf)]
    ELSE [rc |-> -35, q |-> q]

\* k_msgq_put(&ble_msgq, buf, K_NO_WAIT): 0 and the frame appended, or
\* -ENOMSG and the queue as it was when it already holds MSGQ_MAX_MSGS
k_msgq_put(q, buf) ==
  IF Len(q) < MSGQ_MAX_MSGS
    THEN [rc |-> 0, q |-> Append(q, buf)]
    ELSE [rc |-> -35, q |-> q]

\* k_msgq_get(&ble_msgq, tx_buffer, K_MSEC(1000)): 0 and the oldest frame,
\* or -EAGAIN after the timeout on an empty queue (buffer untouched)
k_msgq_get(q, buf) ==
  IF Len(q) > 0
    THEN [rc |-> 0, q |-> Tail(q), buf |-> Head(q)]
    ELSE [rc |-> -11, q |-> q, buf |-> buf]

\* nus_buf with the distances low byte first
NusBuf_little_endian(rx, d) ==
  LET b4 == d[1] % UINT8_MOD
      b5 == (d[1] \div UINT8_MOD) % UINT8_MOD
      b6 == d[2] % UINT8_MOD
      b7 == (d[2] \div UINT8_MOD) % UINT8_MOD
      b8 == d[3] % UINT8_MOD
      b9 == (d[3] \div UINT8_MOD) % UINT8_MOD
  IN  << At(rx, 0), At(rx, 1), At(rx, 2), At(rx, 3), b4, b5, b6, b7, b8, b9,
         (At(rx, 1) + At(rx, 2) + At(rx, 3) + b4 + b5 + b6 + b7 + b8 + b9)
           % UINT8_MOD >>

\* nus_buf of lines 322-339: four bytes of rx_buffer, the three distances
\* high byte first, and the low byte of the sum of bytes 1..9
NusBuf(rx, d) ==
  LET b4 == (d[1] \div UINT8_MOD) % UINT8_MOD
      b5 == d[1] % UINT8_MOD
      b6 == (d[2] \div UINT8_MOD) % UINT8_MOD
      b7 == d[2] % UINT8_MOD
      b8 == (d[3] \div UINT8_MOD) % UINT8_MOD
      b9 == d[3] % UINT8_MOD
  IN  << At(rx, 0), At(rx, 1), At(rx, 2), At(rx, 3), b4, b5, b6, b7, b8, b9,
         (At(rx, 1) + At(rx, 2) + At(rx, 3) + b4 + b5 + b6 + b7 + b8 + b9)
           % UINT8_MOD >>

\* uint32_t: a value is <<high half, low half>>, each 16 bits wide
U32Zero == <<0, 0>>

\* a + k in uint32_t, for 0 <= k < 2^16
U32Add(a, k) ==
  LET lo == a[2] + k
  IN  <<(a[1] + (lo \div UINT16_MOD)) % UINT16_MOD, lo % UINT16_MOD>>

\* a - b in uint32_t
U32Sub(a, b) ==
  LET lo     == a[2] - b[2]
      borrow == IF lo < 0 THEN 1 ELSE 0
  IN  <<(a[1] - b[1] - borrow) % UINT16_MOD, lo % UINT16_MOD>>

\* a < b in uint32_t
U32Lt(a, b) == a[1] < b[1] \/ (a[1] = b[1] /\ a[2] < b[2])

\* a >= k in uint32_t, for 0 <= k < 2^16
U32GeSmall(a, k) == a[1] > 0 \/ a[2] >= k

\* the gate without the backoff test
GateOpen_no_backoff(t, last, backoff_until) ==
  U32GeSmall(U32Sub(t, last), NUS_SEND_INTERVAL_MS)

\* the gate without the minimum-interval test
GateOpen_no_rate(t, last, backoff_until) ==
  ~U32Lt(t, backoff_until)

\* lines 317-321: the gate on one uptime reading
GateOpen(t, last, backoff_until) ==
  LET in_backoff == U32Lt(t, backoff_until)
      rate_ok    == U32GeSmall(U32Sub(t, last), NUS_SEND_INTERVAL_MS)
  IN  ~in_backoff /\ rate_ok

\* lines 228-230: the mock distance to anchor k at tick t (uint16 store)
MockDistance(k, t) == (1000 * (k + 1) + (t % UWB_TICK_MOD)) % UINT16_MOD

\* k_uptime_get_32()
Uptime32 == U32Add(boot, clock)

\* no transaction, no send yet in this iteration
NoEvent == [done |-> FALSE]

(* ---------------------------- initial state --------------------------- *)
InitAt(c0, t0) ==
  /\ msgq = << >>
  /\ tx_buffer = ZeroFrame
  /\ rx_buffer = ZeroFrame
  /\ send_brake_on_disconnect = FALSE
  /\ send_brake_on_queue_full = FALSE
  /\ current_conn = NULL
  /\ last_nus_send_ms = U32Zero
  /\ nus_send_backoff_until_ms = U32Zero
  /\ uwb_distances_mm = IF t0 = 0 THEN <<0, 0, 0>>
                         ELSE <<MockDistance(0, t0), MockDistance(1, t0),
                                MockDistance(2, t0)>>
  /\ tick = t0
  /\ drdy = FALSE
  /\ pc = "get"
  /\ ret = 0
  /\ conn_read = NULL
  /\ now = U32Zero
  /\ d0 = 0
  /\ d1 = 0
  /\ d2 = 0
  /\ cb = "idle"
  /\ cb_conn = NULL
  /\ uwb_pc = "d0"
  /\ link = NULL
  /\ refs = {}
  /\ boot = c0
  /\ clock = 0
  /\ nconn = 0
  /\ nmsgs = 0
  /\ nticks = 0
  /\ nuwb = 0
  /\ iter = 0
  /\ accepted = << >>
  /\ popped = << >>
  /\ wire = NoEvent
  /\ nus = NoEvent
  /\ sub = {}
  /\ rejSince = FALSE
  /\ stopped = FALSE
  /\ discDue = -1
  /\ discStops = 0
  /\ discTaken = FALSE
  /\ okAt = -1
  /\ failAt = -1
  /\ failAny = -1
  /\ fullTaken = FALSE
  /\ nsetD = 0
  /\ nsetF = 0
  /\ late = FALSE
  /\ latePrev = FALSE
  /\ latchRun = -1
  /\ takenRun = -1
  /\ stopRun = -1
  /\ dupStop = FALSE
  /\ pendStop = FALSE

(* ------------------------- Bluetooth callbacks ------------------------ *)
\* bt_receive_cb up to the return of k_msgq_put
bt_receive_cb(data) ==
  /\ UNCHANGED latVars
  /\ cb = "idle"
  /\ link # NULL
  /\ LET r == k_msgq_put(msgq, TempBuf(data))
     IN  /\ msgq' = r.q
         /\ accepted' = IF r.rc = 0 THEN Append(accepted, data) ELSE accepted
         /\ cb' = IF r.rc = 0 THEN "idle" ELSE "rx_full"
  /\ nmsgs' = nmsgs + 1
  /\ UNCHANGED <<tx_buffer, rx_buffer, send_brake_on_disconnect,
                 send_brake_on_queue_full, current_conn, last_nus_send_ms,
                 nus_send_backoff_until_ms, uwb_distances_mm, tick, drdy>>
  /\ UNCHANGED <<pc, ret, conn_read, now, d0, d1, d2, cb_conn, uwb_pc>>
  /\ UNCHANGED <<link, refs, boot, clock, nconn, nticks, nuwb, iter>>
  /\ UNCHANGED <<popped, wire, nus, sub, rejSince, stopped, discDue, discStops,
                 discTaken, okAt, failAt, failAny>>

\* bt_receive_cb after a failed put: line 115
bt_receive_full ==
  /\ fullTaken' = FALSE
  /\ nsetF' = IF nsetF < 2 THEN nsetF + 1 ELSE 2
  /\ late' = TRUE
  /\ UNCHANGED latePrev
  /\ latchRun' = Len(accepted)
  /\ pendStop' = TRUE
  /\ UNCHANGED <<nsetD, takenRun, stopRun, dupStop>>
  /\ cb = "rx_full"
  /\ send_brake_on_queue_full' = TRUE
  /\ rejSince' = TRUE
  /\ cb' = "idle"
  /\ UNCHANGED <<msgq, tx_buffer, rx_buffer, send_brake_on_disconnect,
                 current_conn, last_nus_send_ms, nus_send_backoff_until_ms,
                 uwb_distances_mm, tick, drdy>>
  /\ UNCHANGED <<pc, ret, conn_read, now, d0, d1, d2, cb_conn, uwb_pc>>
  /\ UNCHANGED envVars
  /\ UNCHANGED <<accepted, popped, wire, nus, sub, stopped, discDue, discStops,
                 discTaken, okAt, failAt, failAny>>

\* connected(conn, err): the stack reports a new connection, or a failed one
connected(err) ==
  /\ UNCHANGED latVars
  /\ cb = "idle"
  /\ link = NULL
  /\ IF err # 0
       THEN UNCHANGED <<current_conn, link, refs, nconn, stopped>>
       ELSE /\ current_conn' = nconn + 1
            /\ link' = nconn + 1
            /\ refs' = refs \cup {nconn + 1}
            /\ nconn' = nconn + 1
            /\ stopped' = FALSE
  /\ UNCHANGED <<msgq, tx_buffer, rx_buffer, send_brake_on_disconnect,
                 send_brake_on_queue_full, last_nus_send_ms,
                 nus_send_backoff_until_ms, uwb_distances_mm, tick, drdy>>
  /\ UNCHANGED ctlVars
  /\ UNCHANGED <<boot, clock, nmsgs, nticks, nuwb, iter>>
  /\ UNCHANGED <<accepted, popped, wire, nus, sub, rejSince, discDue, discStops,
                 discTaken, okAt, failAt, failAny>>

\* disconnected(conn, reason) through line 139
disconnected_begin ==
  /\ UNCHANGED latePrev
  /\ cb = "idle"
  /\ link # NULL
  /\ link' = NULL
  /\ IF current_conn = link
       THEN /\ send_brake_on_disconnect' = TRUE
            /\ cb' = "disc_unref"
            /\ cb_conn' = link
            /\ discDue' = iter + 1
            /\ discStops' = 0
            /\ discTaken' = FALSE
            /\ nsetD' = IF nsetD < 2 THEN nsetD + 1 ELSE 2
            /\ late' = TRUE
            /\ pendStop' = TRUE
       ELSE UNCHANGED <<send_brake_on_disconnect, cb, cb_conn, discDue, discStops,
                        discTaken, nsetD, late, pendStop>>
  /\ UNCHANGED <<fullTaken, nsetF, latchRun, takenRun, stopRun, dupStop>>
  /\ UNCHANGED <<msgq, tx_buffer, rx_buffer, send_brake_on_queue_full,
                 current_conn, last_nus_send_ms, nus_send_backoff_until_ms,
                 uwb_distances_mm, tick, drdy>>
  /\ UNCHANGED <<pc, ret, conn_read, now, d0, d1, d2, uwb_pc>>
  /\ UNCHANGED <<refs, boot, clock, nconn, nmsgs, nticks, nuwb, iter>>
  /\ UNCHANGED <<accepted, popped, wire, nus, sub, rejSince, stopped, okAt,
                 failAt, failAny>>

\* disconnected(conn, reason), lines 140-145
disconnected_end ==
  /\ UNCHANGED latVars
  /\ cb = "disc_unref"
  /\ refs' = refs \ {current_conn}
  /\ current_conn' = NULL
  /\ nus_send_backoff_until_ms' = U32Zero
  /\ failAt' = -1
  /\ cb' = "idle"
  /\ cb_conn' = NULL
  /\ UNCHANGED <<msgq, tx_buffer, rx_buffer, send_brake_on_disconnect,
                 send_brake_on_queue_full, last_nus_send_ms,
                 uwb_distances_mm, tick, drdy>>
  /\ UNCHANGED <<pc, ret, conn_read, now, d0, d1, d2, uwb_pc>>
  /\ UNCHANGED <<link, boot, clock, nconn, nmsgs, nticks, nuwb, iter>>
  /\ UNCHANGED <<accepted, popped, wire, nus, sub, rejSince, stopped, discDue,
                 discStops, discTaken, okAt, failAny>>

(* ----------------------------- UWB thread ----------------------------- *)
\* lines 219-228: the poll, tick++ and the store of distance 0
uwb_store0 ==
  /\ UNCHANGED latVars
  /\ uwb_pc = "d0"
  /\ nuwb' = nuwb + 1
  /\ tick' = (tick + 1) % UINT16_MOD
  /\ uwb_distances_mm' =
       [uwb_distances_mm EXCEPT ![1] = MockDistance(0, (tick + 1) % UINT16_MOD)]
  /\ uwb_pc' = "d1"
  /\ UNCHANGED <<msgq, tx_buffer, rx_buffer, send_brake_on_disconnect,
                 send_brake_on_queue_full, current_conn, last_nus_send_ms,
                 nus_send_backoff_until_ms, drdy>>
  /\ UNCHANGED <<pc, ret, conn_read, now, d0, d1, d2, cb, cb_conn>>
  /\ UNCHANGED <<link, refs, boot, clock, nconn, nmsgs, nticks, iter>>
  /\ UNCHANGED obsVars

\* line 229
uwb_store1 ==
  /\ UNCHANGED latVars
  /\ uwb_pc = "d1"
  /\ uwb_distances_mm' = [uwb_distances_mm EXCEPT ![2] = MockDistance(1, tick)]
  /\ uwb_pc' = "d2"
  /\ UNCHANGED <<msgq, tx_buffer, rx_buffer, send_brake_on_disconnect,
                 send_brake_on_queue_full, current_conn, last_nus_send_ms,
                 nus_send_backoff_until_ms, tick, drdy>>
  /\ UNCHANGED <<pc, ret, conn_read, now, d0, d1, d2, cb, cb_conn>>
  /\ UNCHANGED envVars
  /\ UNCHANGED obsVars

\* lines 230-232: the store of distance 2, then the sleep
uwb_store2 ==
  /\ UNCHANGED latVars
  /\ uwb_pc = "d2"
  /\ uwb_distances_mm' = [uwb_distances_mm EXCEPT ![3] = MockDistance(2, tick)]
  /\ uwb_pc' = "d0"
  /\ UNCHANGED <<msgq, tx_buffer, rx_buffer, send_brake_on_disconnect,
                 send_brake_on_queue_full, current_conn, last_nus_send_ms,
                 nus_send_backoff_until_ms, tick, drdy>>
  /\ UNCHANGED <<pc, ret, conn_read, now, d0, d1, d2, cb, cb_conn>>
  /\ UNCHANGED envVars
  /\ UNCHANGED obsVars

(* ----------------------------- bridge loop ---------------------------- *)
\* lines 266-270 without the memset of line 269
main_get_no_memset ==
  /\ fullTaken' = FALSE
  /\ takenRun' = -1
  /\ UNCHANGED <<nsetD, nsetF, late, latePrev, latchRun, stopRun, dupStop, pendStop>>
  /\ pc = "get"
  /\ LET r == k_msgq_get(msgq, tx_buffer)
     IN  /\ ret' = r.rc
         /\ msgq' = r.q
         /\ tx_buffer' = r.buf
         /\ popped' = IF r.rc = 0 THEN Append(popped, r.buf) ELSE popped
  /\ iter' = iter + 1
  /\ sub' = {}
  /\ wire' = NoEvent
  /\ nus' = NoEvent
  /\ discTaken' = FALSE
  /\ pc' = "chk_disc"
  /\ UNCHANGED <<rx_buffer, send_brake_on_disconnect, send_brake_on_queue_full,
                 current_conn, last_nus_send_ms, nus_send_backoff_until_ms,
                 uwb_distances_mm, tick, drdy>>
  /\ UNCHANGED <<conn_read, now, d0, d1, d2, cb, cb_conn, uwb_pc>>
  /\ UNCHANGED <<link, refs, boot, clock, nconn, nmsgs, nticks, nuwb>>
  /\ UNCHANGED <<accepted, rejSince, stopped, discDue, discStops,
                 okAt, failAt, failAny>>

\* lines 266-270: the pop, and the memset when it timed out
main_get ==
  /\ fullTaken' = FALSE
  /\ takenRun' = -1
  /\ UNCHANGED <<nsetD, nsetF, late, latePrev, latchRun, stopRun, dupStop, pendStop>>
  /\ pc = "get"
  /\ LET r == k_msgq_get(msgq, tx_buffer)
     IN  /\ ret' = r.rc
         /\ msgq' = r.q
         /\ tx_buffer' = IF r.rc # 0 THEN ZeroFrame ELSE r.buf
         /\ popped' = IF r.rc = 0 THEN Append(popped, r.buf) ELSE popped
  /\ iter' = iter + 1
  /\ sub' = {}
  /\ wire' = NoEvent
  /\ nus' = NoEvent
  /\ discTaken' = FALSE
  /\ pc' = "chk_disc"
  /\ UNCHANGED <<rx_buffer, send_brake_on_disconnect, send_brake_on_queue_full,
                 current_conn, last_nus_send_ms, nus_send_backoff_until_ms,
                 uwb_distances_mm, tick, drdy>>
  /\ UNCHANGED <<conn_read, now, d0, d1, d2, cb, cb_conn, uwb_pc>>
  /\ UNCHANGED <<link, refs, boot, clock, nconn, nmsgs, nticks, nuwb>>
  /\ UNCHANGED <<accepted, rejSince, stopped, discDue, discStops,
                 okAt, failAt, failAny>>

\* the bridge loop moves to position p and touches nothing but what the
\* caller names
MainStep(p) ==
  /\ pc' = p
  /\ UNCHANGED <<ret, conn_read, now, d0, d1, d2, cb, cb_conn, uwb_pc>>
  /\ UNCHANGED envVars
  /\ UNCHANGED <<accepted, popped, nus, rejSince, stopped, discDue, discStops,
                 okAt, failAt, failAny>>

\* line 273: the test of the disconnect latch
main_chk_disc ==
  /\ late' = FALSE
  /\ latePrev' = late
  /\ UNCHANGED <<fullTaken, nsetD, nsetF, latchRun, takenRun, stopRun, dupStop,
                 pendStop>>
  /\ pc = "chk_disc"
  /\ MainStep(IF send_brake_on_disconnect THEN "clr_disc" ELSE "chk_full")
  /\ UNCHANGED <<progVars, wire, sub, discTaken>>

\* lines 274-281 without the store of line 274: the latch stays set
main_clr_disc_keeps_latch ==
  /\ nsetD' = 0
  /\ UNCHANGED <<fullTaken, nsetF, late, latePrev, latchRun, takenRun, stopRun, dupStop,
                 pendStop>>
  /\ pc = "clr_disc"
  /\ tx_buffer' = WriteBrake(tx_buffer)
  /\ sub' = sub \cup {"disc"}
  /\ discTaken' = TRUE
  /\ MainStep("chk_full")
  /\ UNCHANGED <<msgq, rx_buffer, send_brake_on_disconnect,
                 send_brake_on_queue_full, current_conn,
                 last_nus_send_ms, nus_send_backoff_until_ms, uwb_distances_mm,
                 tick, drdy, wire>>

\* lines 274-281 without the stores into tx_buffer
main_clr_disc_no_brake ==
  /\ nsetD' = 0
  /\ UNCHANGED <<fullTaken, nsetF, late, latePrev, latchRun, takenRun, stopRun, dupStop,
                 pendStop>>
  /\ pc = "clr_disc"
  /\ send_brake_on_disconnect' = FALSE
  /\ sub' = sub \cup {"disc"}
  /\ discTaken' = TRUE
  /\ MainStep("chk_full")
  /\ UNCHANGED <<msgq, tx_buffer, rx_buffer, send_brake_on_queue_full,
                 current_conn, last_nus_send_ms, nus_send_backoff_until_ms,
                 uwb_distances_mm, tick, drdy, wire>>

\* lines 274-281: the latch cleared, the brake written
main_clr_disc ==
  /\ nsetD' = 0
  /\ UNCHANGED <<fullTaken, nsetF, late, latePrev, latchRun, takenRun, stopRun, dupStop,
                 pendStop>>
  /\ pc = "clr_disc"
  /\ send_brake_on_disconnect' = FALSE
  /\ tx_buffer' = WriteBrake(tx_buffer)
  /\ sub' = sub \cup {"disc"}
  /\ discTaken' = TRUE
  /\ MainStep("chk_full")
  /\ UNCHANGED <<msgq, rx_buffer, send_brake_on_queue_full, current_conn,
                 last_nus_send_ms, nus_send_backoff_until_ms, uwb_distances_mm,
                 tick, drdy, wire>>

\* line 284 as an else-branch of line 273: the queue-full latch is not
\* tested in an iteration that took the disconnect latch
main_chk_full_else_if ==
  /\ UNCHANGED latVars
  /\ pc = "chk_full"
  /\ MainStep(IF send_brake_on_queue_full /\ sub = {}
                THEN "clr_full" ELSE "drdy_on")
  /\ UNCHANGED <<progVars, wire, sub, discTaken>>

\* line 284: the test of the queue-full latch
main_chk_full ==
  /\ UNCHANGED latVars
  /\ pc = "chk_full"
  /\ MainStep(IF send_brake_on_queue_full THEN "clr_full" ELSE "drdy_on")
  /\ UNCHANGED <<progVars, wire, sub, discTaken>>

\* lines 285-292
main_clr_full ==
  /\ fullTaken' = TRUE
  /\ nsetF' = 0
  /\ takenRun' = latchRun
  /\ UNCHANGED <<nsetD, late, latePrev, latchRun, stopRun, dupStop, pendStop>>
  /\ pc = "clr_full"
  /\ send_brake_on_queue_full' = FALSE
  /\ tx_buffer' = WriteBrake(tx_buffer)
  /\ sub' = sub \cup {"full"}
  /\ MainStep("drdy_on")
  /\ UNCHANGED <<msgq, rx_buffer, send_brake_on_disconnect, current_conn,
                 last_nus_send_ms, nus_send_backoff_until_ms, uwb_distances_mm,
                 tick, drdy, wire, discTaken>>

\* set_drdy(active): the level driven on the pin
set_drdy(active) == IF active THEN TRUE ELSE FALSE

\* line 301
main_drdy_on ==
  /\ UNCHANGED latVars
  /\ pc = "drdy_on"
  /\ drdy' = set_drdy(TRUE)
  /\ MainStep("spi")
  /\ UNCHANGED <<msgq, tx_buffer, rx_buffer, send_brake_on_disconnect,
                 send_brake_on_queue_full, current_conn, last_nus_send_ms,
                 nus_send_backoff_until_ms, uwb_distances_mm, tick, wire, sub,
                 discTaken>>

\* line 302: spi_transceive returns once the master has clocked the frame
\* (r >= 0, rx_buffer filled with what the master sent) or with an error
\* (r < 0, rx_buffer as it was)
main_spi(rx, r) ==
  /\ stopRun' = IF fullTaken /\ r >= 0 THEN takenRun ELSE stopRun
  /\ dupStop' = (dupStop \/ (fullTaken /\ r >= 0 /\ takenRun = stopRun))
  /\ pendStop' = IF r >= 0 /\ tx_buffer = WriteBrake(tx_buffer)
                    THEN FALSE ELSE pendStop
  /\ UNCHANGED <<fullTaken, nsetD, nsetF, late, latePrev, latchRun, takenRun>>
  /\ pc = "spi"
  /\ ret' = r
  /\ rx_buffer' = IF r >= 0 THEN rx ELSE rx_buffer
  /\ wire' = [done |-> TRUE, frame |-> tx_buffer, ret |-> r,
              rej |-> rejSince, sub |-> sub, afterStop |-> stopped,
              got |-> (ret = 0)]
  /\ rejSince' = FALSE
  /\ stopped' = (stopped \/ (r >= 0 /\ link = NULL /\ nconn > 0
                              /\ tx_buffer = WriteBrake(tx_buffer)))
  /\ discStops' = IF discTaken THEN discStops + 1 ELSE discStops
  /\ pc' = "drdy_off"
  /\ UNCHANGED <<msgq, tx_buffer, send_brake_on_disconnect,
                 send_brake_on_queue_full, current_conn, last_nus_send_ms,
                 nus_send_backoff_until_ms, uwb_distances_mm, tick, drdy>>
  /\ UNCHANGED <<conn_read, now, d0, d1, d2, cb, cb_conn, uwb_pc>>
  /\ UNCHANGED envVars
  /\ UNCHANGED <<accepted, popped, nus, sub, discDue, discTaken, okAt, failAt,
                 failAny>>

\* line 303 skipped when the transaction failed
main_drdy_off_unless_error ==
  /\ UNCHANGED latVars
  /\ pc = "drdy_off"
  /\ drdy' = IF ret < 0 THEN drdy ELSE set_drdy(FALSE)
  /\ MainStep("relay_match")
  /\ UNCHANGED <<msgq, tx_buffer, rx_buffer, send_brake_on_disconnect,
                 send_brake_on_queue_full, current_conn, last_nus_send_ms,
                 nus_send_backoff_until_ms, uwb_distances_mm, tick, wire, sub,
                 discTaken>>

\* line 303, then straight to the next iteration
main_drdy_off_no_relay ==
  /\ UNCHANGED latVars
  /\ pc = "drdy_off"
  /\ drdy' = set_drdy(FALSE)
  /\ MainStep("get")
  /\ UNCHANGED <<msgq, tx_buffer, rx_buffer, send_brake_on_disconnect,
                 send_brake_on_queue_full, current_conn, last_nus_send_ms,
                 nus_send_backoff_until_ms, uwb_distances_mm, tick, wire, sub,
                 discTaken>>

\* line 303
main_drdy_off ==
  /\ UNCHANGED latVars
  /\ pc = "drdy_off"
  /\ drdy' = set_drdy(FALSE)
  /\ MainStep("relay_match")
  /\ UNCHANGED <<msgq, tx_buffer, rx_buffer, send_brake_on_disconnect,
                 send_brake_on_queue_full, current_conn, last_nus_send_ms,
                 nus_send_backoff_until_ms, uwb_distances_mm, tick, wire, sub,
                 discTaken>>

\* lines 306 and 315: the telemetry signature, then the read of current_conn
IsTelemetry(rx) == At(rx, 0) = 165 /\ At(rx, 1) = TELEMETRY_MSG_ID

\* the relay with the checksum test of line 308 deciding: a mismatch
\* returns to the pop
main_relay_match_validates ==
  /\ UNCHANGED latVars
  /\ pc = "relay_match"
  /\ pc' = IF /\ IsTelemetry(rx_buffer)
              /\ At(rx_buffer, 4) = (At(rx_buffer, 1) + At(rx_buffer, 2)
                                      + At(rx_buffer, 3)) % UINT8_MOD
              /\ current_conn # NULL
             THEN "relay_gate" ELSE "get"
  /\ conn_read' = IF IsTelemetry(rx_buffer) THEN current_conn ELSE conn_read
  /\ UNCHANGED <<ret, now, d0, d1, d2, cb, cb_conn, uwb_pc>>
  /\ UNCHANGED <<progVars, envVars, obsVars>>

\* lines 306-316: the signature test, the checksum warning (a log line
\* only), the test of current_conn
main_relay_match ==
  /\ UNCHANGED latVars
  /\ pc = "relay_match"
  /\ pc' = IF IsTelemetry(rx_buffer) /\ current_conn # NULL
             THEN "relay_gate" ELSE "get"
  /\ conn_read' = IF IsTelemetry(rx_buffer) THEN current_conn ELSE conn_read
  /\ UNCHANGED <<ret, now, d0, d1, d2, cb, cb_conn, uwb_pc>>
  /\ UNCHANGED <<progVars, envVars, obsVars>>

\* what bt_nus_send returns: success, or -ENOTCONN
NusRets == {0, -128}

\* lines 317-321: the uptime read and the gate. The conn passed at line 341
\* is the value read at line 315 or a fresh read of current_conn (it is not
\* volatile and the callbacks write it unlocked).

main_relay_gate ==
  /\ UNCHANGED latVars
  /\ pc = "relay_gate"
  /\ now' = Uptime32
  /\ pc' = IF GateOpen(Uptime32, last_nus_send_ms, nus_send_backoff_until_ms)
             THEN "read_d0" ELSE "get"
  /\ UNCHANGED <<ret, conn_read, d0, d1, d2, cb, cb_conn, uwb_pc>>
  /\ UNCHANGED <<progVars, envVars, obsVars>>

\* lines 323-325: the three reads of uwb_distances_mm, one at a time
main_read_d0 ==
  /\ UNCHANGED latVars
  /\ pc = "read_d0"
  /\ d0' = At(uwb_distances_mm, 0)
  /\ pc' = "read_d1"
  /\ UNCHANGED <<ret, conn_read, now, d1, d2, cb, cb_conn, uwb_pc>>
  /\ UNCHANGED <<progVars, envVars, obsVars>>

main_read_d1 ==
  /\ UNCHANGED latVars
  /\ pc = "read_d1"
  /\ d1' = At(uwb_distances_mm, 1)
  /\ pc' = "read_d2"
  /\ UNCHANGED <<ret, conn_read, now, d0, d2, cb, cb_conn, uwb_pc>>
  /\ UNCHANGED <<progVars, envVars, obsVars>>

main_read_d2 ==
  /\ UNCHANGED latVars
  /\ pc = "read_d2"
  /\ d2' = At(uwb_distances_mm, 2)
  /\ pc' = "relay_send"
  /\ UNCHANGED <<ret, conn_read, now, d0, d1, cb, cb_conn, uwb_pc>>
  /\ UNCHANGED <<progVars, envVars, obsVars>>

\* lines 327-352 with line 343 run after a failed send too
main_relay_send_stamps_failure ==
  /\ UNCHANGED latVars
  /\ pc = "relay_send"
  /\ \E c \in {conn_read, current_conn}, err \in NusRets :
       /\ nus' = [done |-> TRUE, conn |-> c,
                  buf |-> NusBuf(rx_buffer, <<d0, d1, d2>>),
                  rx |-> SubSeq(rx_buffer, 1, 5), d |-> <<d0, d1, d2>>,
                  err |-> err, at |-> clock, held |-> (c \in refs),
                  okAt |-> okAt, failAt |-> failAt, failAny |-> failAny]
       /\ okAt' = IF err = 0 THEN clock ELSE okAt
       /\ last_nus_send_ms' = now
       /\ nus_send_backoff_until_ms' =
            IF err = 0 THEN U32Zero ELSE U32Add(now, NUS_SEND_BACKOFF_MS)
       /\ failAt' = IF err = 0 THEN failAt ELSE clock
       /\ failAny' = IF err = 0 THEN failAny ELSE clock
  /\ pc' = "get"
  /\ now' = U32Zero
  /\ d0' = 0
  /\ d1' = 0
  /\ d2' = 0
  /\ UNCHANGED <<msgq, tx_buffer, rx_buffer, send_brake_on_disconnect,
                 send_brake_on_queue_full, current_conn, uwb_distances_mm, tick, drdy>>
  /\ UNCHANGED <<ret, conn_read, cb, cb_conn, uwb_pc>>
  /\ UNCHANGED envVars
  /\ UNCHANGED <<accepted, popped, wire, sub, rejSince, stopped, discDue,
                 discStops, discTaken>>

\* lines 327-352: the message, bt_nus_send and its outcome; the locals die
\* with the block
main_relay_send ==
  /\ UNCHANGED latVars
  /\ pc = "relay_send"
  /\ \E c \in {conn_read, current_conn}, err \in NusRets :
       /\ nus' = [done |-> TRUE, conn |-> c,
                  buf |-> NusBuf(rx_buffer, <<d0, d1, d2>>),
                  rx |-> SubSeq(rx_buffer, 1, 5), d |-> <<d0, d1, d2>>,
                  err |-> err, at |-> clock, held |-> (c \in refs),
                  okAt |-> okAt, failAt |-> failAt, failAny |-> failAny]
       /\ okAt' = IF err = 0 THEN clock ELSE okAt
       /\ last_nus_send_ms' = IF err = 0 THEN now ELSE last_nus_send_ms
       /\ nus_send_backoff_until_ms' =
            IF err = 0 THEN U32Zero ELSE U32Add(now, NUS_SEND_BACKOFF_MS)
       /\ failAt' = IF err = 0 THEN failAt ELSE clock
       /\ failAny' = IF err = 0 THEN failAny ELSE clock
  /\ pc' = "get"
  /\ now' = U32Zero
  /\ d0' = 0
  /\ d1' = 0
  /\ d2' = 0
  /\ UNCHANGED <<msgq, tx_buffer, rx_buffer, send_brake_on_disconnect,
                 send_brake_on_queue_full, current_conn, uwb_distances_mm, tick, drdy>>
  /\ UNCHANGED <<ret, conn_read, cb, cb_conn, uwb_pc>>
  /\ UNCHANGED envVars
  /\ UNCHANGED <<accepted, popped, wire, sub, rejSince, stopped, discDue,
                 discStops, discTaken>>

(* ------------------------------- time --------------------------------- *)
\* d ms pass while the loop is blocked in spi_transceive
Tick(d) ==
  /\ UNCHANGED latVars
  /\ pc = "spi"
  /\ clock' = clock + d
  /\ nticks' = nticks + 1
  /\ UNCHANGED <<progVars, ctlVars, obsVars>>
  /\ UNCHANGED <<link, refs, boot, nconn, nmsgs, nuwb, iter>>

(* --------------------------- specifications --------------------------- *)
\* the k-th message of the peer: the three-byte command with id k
Command(k) == <<CMD_START_BYTE, k, k>>

\* what spi_transceive returns: success, or -EIO
SpiRets == {0, -5}

\* The bridge under inbound traffic and link loss: the peer streams
\* commands, the link comes and goes, the master clocks zeros back.
Init == InitAt(U32Zero, 0)

Next ==
  \/ nmsgs < MaxMsgs /\ bt_receive_cb(Command(nmsgs + 1))
  \/ bt_receive_full
  \/ nconn < MaxConns /\ \E err \in {0, 2} : connected(err)
  \/ disconnected_begin
  \/ disconnected_end
  \/ iter < MaxIter /\ main_get
  \/ main_chk_disc
  \/ main_clr_disc
  \/ main_chk_full
  \/ main_clr_full
  \/ main_drdy_on
  \/ \E r \in SpiRets : main_spi(ZeroFrame, r)
  \/ main_drdy_off
  \/ main_relay_match

Spec == Init /\ [][Next]_vars

\* The telemetry relay under time: no inbound traffic, the master clocks
\* telemetry or zeros back, the link comes and goes, sends succeed or fail.
TelemetryFrame(b2, b3, b4) ==
  [i \in 1..SPI_BUF_SIZE |->
     CASE i = 1 -> 165 [] i = 2 -> TELEMETRY_MSG_ID [] i = 3 -> b2
       [] i = 4 -> b3 [] i = 5 -> b4 [] OTHER -> 0]

RelayRx == {ZeroFrame, TelemetryFrame(1, 2, 99)}

\* uptime when the loop starts: 100 ms after boot, or 3010 ms before the
\* 32-bit counter wraps
StartClocks == {<<0, 100>>, <<UINT16_MOD - 1, UINT16_MOD - 3010>>}

TickSteps == {10, 50, 3000}

InitRelay == \E c0 \in StartClocks : InitAt(c0, 0)

NextRelay ==
  \/ nconn < RelayConns /\ \E err \in {0, 2} : connected(err)
  \/ disconnected_begin
  \/ disconnected_end
  \/ iter < RelayIter /\ main_get
  \/ main_chk_disc
  \/ main_clr_disc
  \/ main_chk_full
  \/ main_drdy_on
  \/ \E rx \in RelayRx, r \in SpiRets : main_spi(rx, r)
  \/ main_drdy_off
  \/ main_relay_match
  \/ main_relay_gate
  \/ main_read_d0
  \/ main_read_d1
  \/ main_read_d2
  \/ main_relay_send
  \/ nticks < MaxTicks /\ \E d \in TickSteps : Tick(d)

SpecRelay == InitRelay /\ [][NextRelay]_vars

\* The bridge with a master that clocks every transaction: the loop keeps
\* running (k_msgq_get returns after 1000 ms at the latest, spi_transceive
\* returns 0 once the master has clocked the frame).
LoopLive ==
  \/ iter < LiveIter /\ main_get
  \/ main_chk_disc
  \/ main_clr_disc
  \/ main_chk_full
  \/ main_clr_full
  \/ main_drdy_on
  \/ main_spi(ZeroFrame, 0)
  \/ main_drdy_off
  \/ main_relay_match

NextLive ==
  \/ nmsgs < LiveMsgs /\ bt_receive_cb(Command(nmsgs + 1))
  \/ bt_receive_full
  \/ nconn < LiveConns /\ connected(0)
  \/ disconnected_begin
  \/ disconnected_end
  \/ LoopLive

SpecLive == Init /\ [][NextLive]_vars /\ WF_vars(LoopLive)

\* The telemetry message: a peer connects, the UWB thread refreshes the
\* distances, the master clocks telemetry frames back.
TelemetryRx == {ZeroFrame, TelemetryFrame(1, 2, 99), TelemetryFrame(1, 2, 0),
                TelemetryFrame(255, 254, 93)}

\* the UWB thread's tick when the loop starts: 199 is one pass before the
\* mock distances read 1000, 2000, 3000
StartTicks == {0, 199}

InitTelemetry == \E t0 \in StartTicks : InitAt(<<0, 100>>, t0)

NextTelemetry ==
  \/ nconn < 1 /\ \E err \in {0, 2} : connected(err)
  \/ nuwb < MaxUwb /\ uwb_store0
  \/ uwb_store1
  \/ uwb_store2
  \/ iter < TelIter /\ main_get
  \/ main_chk_disc
  \/ main_chk_full
  \/ main_drdy_on
  \/ \E rx \in TelemetryRx : main_spi(rx, 0)
  \/ main_drdy_off
  \/ main_relay_match
  \/ main_relay_gate
  \/ main_read_d0
  \/ main_read_d1
  \/ main_read_d2
  \/ main_relay_send

SpecTelemetry == InitTelemetry /\ [][NextTelemetry]_vars

\* Inbound messages of every length: a peer connects and sends messages
\* shorter than, as long as and longer than a frame.
InboundMsg(n) == [j \in 1..n |-> 1 + (j % 255)]

InboundSet == {InboundMsg(n) : n \in {0, 1, 127, 128, 129, 140}}
                \cup {<<7, 0, 0, 9>>}

NextInbound ==
  \/ nconn < 1 /\ \E err \in {0, 2} : connected(err)
  \/ nmsgs < InboundMsgs /\ \E m \in InboundSet : bt_receive_cb(m)
  \/ iter < InboundIter /\ main_get
  \/ main_chk_disc
  \/ main_chk_full
  \/ main_drdy_on
  \/ \E r \in SpiRets : main_spi(ZeroFrame, r)
  \/ main_drdy_off
  \/ main_relay_match

SpecInbound == Init /\ [][NextInbound]_vars


(* ------------------------------- claims ------------------------------- *)
\* the canonical stop frame: A5 32 32 A5 42 42, then zeros
CanonicalStop ==
  [i \in 1..128 |-> IF i <= 6 THEN <<165, 50, 50, 165, 66, 66>>[i] ELSE 0]

\* the frame of 128 zero bytes
AllZero == [i \in 1..128 |-> 0]

\* the frame a message is queued as: truncated to 128 bytes or zero-padded
FrameOf(m) == [j \in 1..128 |-> IF j <= Len(m) THEN m[j] ELSE 0]

\* the frames that left or still sit in the queue, oldest first
Queued == popped \o msgq

\* wired transactions completed so far
TxDone == IF wire.done THEN iter ELSE iter - 1

\* C1: when a push was rejected on a full queue since the previous wired
\* transaction, the frame the next successful transaction carries is the
\* canonical stop frame.
C1_StopAfterRejectedPush ==
  (wire.done /\ wire.rej /\ wire.ret >= 0) => wire.frame = CanonicalStop

C3_NoStaleCommandAfterStop ==
  (wire.done /\ wire.afterStop /\ wire.ret >= 0 /\ link = NULL)
    => wire.frame \in {CanonicalStop, AllZero}

\* C4: DRDY is asserted exactly from the store before the wired transaction
\* to the store after its return, whatever the transaction returned; in
\* every other position of the loop it is deasserted.
C4_ReadyWindow == drdy <=> pc \in {"spi", "drdy_off"}

\* C4 witness: a failed transaction has returned and DRDY is deasserted.
C4_Witness == pc = "relay_match" /\ wire.done /\ wire.ret < 0 /\ ~drdy

\* C6: the queue never holds more than 32 frames; the frames popped,
\* followed by those still queued, are the frames of the accepted messages
\* in the order of acceptance; a push on a full queue returns at once
\* without touching the queue, and the callback then sets the
\* queue-overflow latch.
C6_QueueInv ==
  /\ Len(msgq) <= 32
  /\ Len(Queued) = Len(accepted)
  /\ \A i \in 1..Len(accepted) : Queued[i] = FrameOf(accepted[i])

C6_RejectStep ==
  /\ (nmsgs' = nmsgs + 1 /\ Len(msgq) = 32)
       => (cb' = "rx_full" /\ msgq' = msgq /\ accepted' = accepted)
  /\ (nmsgs' = nmsgs + 1 /\ Len(msgq) < 32)
       => (cb' = "idle" /\ msgq' = Append(msgq, FrameOf(accepted'[Len(accepted')])))
  /\ (cb = "rx_full" /\ cb' = "idle") => send_brake_on_queue_full'

C6_BoundedFifoQueue == []C6_QueueInv /\ [][C6_RejectStep]_vars

\* C6 witness: a push has just been rejected on a queue of 32 frames, after
\* the loop popped a frame.
C6_Witness == Len(msgq) = 32 /\ cb = "rx_full" /\ Len(popped) >= 1


\* the loop is between the relay's null check and its send call
InRelay == pc \in {"relay_gate", "read_d0", "read_d1", "read_d2", "relay_send"}

\* t + 3000 ms fits uint32_t, for an uptime t taken at clock value c
BackoffFits(c) ==
  LET t == U32Add(boot, c)
  IN  ~(t[1] = 65535 /\ t[2] + 3000 >= 65536)

\* C5: for every interleaving of disconnected() with the bridge loop, with
\* no new connect: (a) when the loop has seen the disconnect latch set the
\* peer reference is already null, (b) the conn handed to bt_nus_send is
\* one the program still holds a reference on, and (c) the iteration that
\* sends the stop frame makes no relay attempt past the null check.
C5_ClearedBeforeLatch ==
  /\ (pc = "clr_disc" /\ link = NULL) => current_conn = NULL
  /\ nus.done => nus.held
  /\ ~(InRelay /\ "disc" \in sub /\ link = NULL)

\* C7 as stated: after a send failed at time t (with t + 3000 inside
\* uint32_t), every later send call is at t + 3000 ms or later, whatever
\* happened in between.
C7_BackoffAlways ==
  (nus.done /\ nus.failAny # -1 /\ BackoffFits(nus.failAny))
    => nus.at >= nus.failAny + 3000

\* C7 amended: after a send failed at time t (with t + 3000 inside
\* uint32_t), and as long as disconnected() has not reset the backoff
\* since, no send call is made before t + 3000 ms.
C7_BackoffUntilDisconnect ==
  (nus.done /\ nus.failAt # -1 /\ BackoffFits(nus.failAt))
    => nus.at >= nus.failAt + 3000

\* C7 witness: the loop is at the gate inside the backoff window of a failed
\* send, with the minimum interval already elapsed.
C7_Witness ==
  /\ pc = "relay_gate"
  /\ failAt # -1
  /\ BackoffFits(failAt)
  /\ clock < failAt + 3000
  /\ U32GeSmall(U32Sub(Uptime32, last_nus_send_ms), 50)

\* C8: a send call made after a successful send comes at least 50 ms after
\* it: a relay opportunity earlier than that makes no send call.
C8_MinimumInterval ==
  (nus.done /\ nus.okAt # -1) => nus.at - nus.okAt >= 50

\* C8 witness: the loop is at the gate less than 50 ms after a successful
\* send, with no backoff pending.
C8_Witness ==
  /\ pc = "relay_gate"
  /\ okAt # -1
  /\ clock - okAt < 50
  /\ nus_send_backoff_until_ms = <<0, 0>>

\* the sum of bytes b[lo..hi] (indices from 1)
RECURSIVE SumBytes(_, _, _)
SumBytes(b, lo, hi) == IF lo > hi THEN 0 ELSE b[lo] + SumBytes(b, lo + 1, hi)

\* the relayed message without its checksum byte: 10 bytes, the four header
\* bytes of the received frame, then the three values read, high byte first
RelayPayload(b, rx, d) ==
  /\ \A i \in 1..10 : b[i] \in 0..255
  /\ \A i \in 1..4 : b[i] = rx[i]
  /\ \A k \in 1..3 : b[3 + 2 * k] * 256 + b[4 + 2 * k] = d[k]

\* C9 as stated: the checksum byte is the sum of message bytes 2..9 modulo
\* 256, counting the bytes from 0 or from 1.
C9_ChecksumBytes2To9 ==
  nus.done =>
    /\ Len(nus.buf) = 11
    /\ RelayPayload(nus.buf, nus.rx, nus.d)
    /\ \/ nus.buf[11] = SumBytes(nus.buf, 3, 10) % 256
       \/ nus.buf[11] = SumBytes(nus.buf, 2, 9) % 256

\* C9 amended: the message has 11 bytes: the four header bytes of the
\* received frame, the three ranging values read, each big-endian, and a
\* checksum equal to the sum of the nine bytes between the first byte and
\* the checksum, modulo 256; for A5 60 01 02 63 and 1000, 2000, 3000 it is
\* A5 60 01 02 03 E8 07 D0 0B B8 E8.
C9_RelayMessage ==
  nus.done =>
    /\ Len(nus.buf) = 11
    /\ RelayPayload(nus.buf, nus.rx, nus.d)
    /\ nus.buf[11] = SumBytes(nus.buf, 2, 10) % 256
    /\ (nus.rx = <<165, 96, 1, 2, 99>> /\ nus.d = <<1000, 2000, 3000>>)
         => nus.buf = <<165, 96, 1, 2, 3, 232, 7, 208, 11, 184, 232>>

\* C9 witness: the message was sent for A5 60 01 02 63 and 1000, 2000, 3000.
C9_Witness ==
  /\ nus.done
  /\ nus.rx = <<165, 96, 1, 2, 99>>
  /\ nus.d = <<1000, 2000, 3000>>

\* C10: every accepted message is queued as exactly one frame of 128 bytes:
\* its first min(n, 128) bytes, then zeros.
C10_TruncateOrPad ==
  /\ Len(Queued) = Len(accepted)
  /\ \A i \in 1..Len(accepted) :
       LET m == accepted[i]
           f == Queued[i]
           k == IF Len(m) < 128 THEN Len(m) ELSE 128
       IN  /\ Len(f) = 128
           /\ \A j \in 1..k : f[j] = m[j]
           /\ \A j \in (k + 1)..128 : f[j] = 0

\* C10 witness: a message longer than a frame and a message shorter than a
\* frame have both been queued, and the loop has popped the first.
C10_Witness ==
  /\ Len(accepted) = 2
  /\ Len(accepted[1]) > 128
  /\ Len(accepted[2]) \in 1..127
  /\ Len(popped) = 1


\* frames popped before the one the current transaction may carry
OlderPops ==
  IF wire.got /\ wire.sub = {} THEN Len(popped) - 1 ELSE Len(popped)

\* C11: a transaction of an iteration that found the disconnect latch or
\* the overflow latch set carries exactly A5 32 32 A5 42 42 and 122 zero
\* bytes, whatever was dequeued; the frame it replaced, like every frame
\* popped by an earlier iteration, is on no later transaction; and the
\* step that follows a latch found set stores FALSE into that latch.
C11_StopFrameInv ==
  wire.done =>
    /\ wire.sub # {} =>
         /\ Len(wire.frame) = 128
         /\ SubSeq(wire.frame, 1, 6) = <<165, 50, 50, 165, 66, 66>>
         /\ \A i \in 7..128 : wire.frame[i] = 0
    /\ \A i \in 1..OlderPops : wire.frame # popped[i]

C11_ClearStep ==
  /\ (pc = "chk_disc" /\ pc' # pc)
       => (pc' = "clr_disc") = send_brake_on_disconnect
  /\ (pc = "chk_full" /\ pc' # pc)
       => (pc' = "clr_full") = send_brake_on_queue_full
  /\ (pc = "clr_disc" /\ pc' # pc)
       => (~send_brake_on_disconnect' /\ "disc" \in sub')
  /\ (pc = "clr_full" /\ pc' # pc)
       => (~send_brake_on_queue_full' /\ "full" \in sub')

C11_SubstitutionFirst == []C11_StopFrameInv /\ [][C11_ClearStep]_vars

\* C11 witness: the second iteration popped a command and transmits it,
\* after the first replaced the command it had popped by the stop frame.
C11_Witness ==
  /\ iter = 2
  /\ wire.done
  /\ wire.got
  /\ wire.sub = {}
  /\ Len(popped) = 2
  /\ discStops = 1


\* the loop is past a latch clear of this iteration and before its
\* transaction, with the brake staged
BrakeStaged ==
  /\ pc \in {"chk_full", "clr_full", "drdy_on", "spi"}
  /\ sub # {}
  /\ tx_buffer = CanonicalStop

\* C12: with a master that clocks every transaction, a latch set is never
\* dropped (while no brake has gone out since the set, a latch is still set
\* or the brake is staged for this iteration's transaction), and every
\* latch set that leaves the loop an iteration to run is followed by a
\* transaction that carries the stop frame; the loop gets there with an
\* empty queue too.
C12_SetKept ==
  pendStop => (send_brake_on_disconnect \/ send_brake_on_queue_full
                 \/ BrakeStaged)

C12_NoFailsafeLost ==
  /\ []C12_SetKept
  /\ (pendStop /\ iter < LiveIter) ~> ~pendStop

\* C12 witness: the pop timed out on an empty queue, the loop found the
\* disconnect latch set and cleared it, and the brake is staged for the
\* transaction.
C12_Witness ==
  /\ pendStop
  /\ pc = "spi"
  /\ ret # 0
  /\ sub = {"disc"}
  /\ ~send_brake_on_disconnect
  /\ tx_buffer = CanonicalStop


\* C13: every frame handed to a wired transaction has 128 bytes and is the
\* frame popped in the same iteration, or all zeros when the pop timed out,
\* or the stop frame when a latch was consumed; after a timed-out pop the
\* loop still stages a frame and nothing an earlier iteration left in
\* tx_buffer goes out again.
C13_FrameOrigin ==
  /\ wire.done =>
       /\ Len(wire.frame) = 128
       /\ \/ wire.sub # {} /\ wire.frame = CanonicalStop
          \/ wire.sub = {} /\ wire.got /\ wire.frame = popped[Len(popped)]
          \/ wire.sub = {} /\ ~wire.got /\ wire.frame = AllZero
  /\ (pc \in {"chk_disc", "drdy_on", "spi"} /\ ret # 0 /\ sub = {})
       => tx_buffer = AllZero

\* C13 witness: after an iteration that transmitted a command or the stop
\* frame, the pop timed out and the transaction carried 128 zero bytes.
C13_Witness ==
  /\ iter = 2
  /\ wire.done
  /\ ~wire.got
  /\ wire.sub = {}
  /\ wire.frame = AllZero
  /\ Len(popped) = 1


\* the order of the loop's statements: pop, disconnect test (and brake),
\* overflow test (and brake), DRDY on, transaction, DRDY off, relay (match,
\* gate, three reads, send), and back to the pop
LoopOrder ==
  { <<"get", "chk_disc">>, <<"chk_disc", "clr_disc">>,
    <<"chk_disc", "chk_full">>, <<"clr_disc", "chk_full">>,
    <<"chk_full", "clr_full">>, <<"chk_full", "drdy_on">>,
    <<"clr_full", "drdy_on">>, <<"drdy_on", "spi">>, <<"spi", "drdy_off">>,
    <<"drdy_off", "relay_match">>, <<"relay_match", "relay_gate">>,
    <<"relay_match", "get">>, <<"relay_gate", "read_d0">>,
    <<"relay_gate", "get">>, <<"read_d0", "read_d1">>,
    <<"read_d1", "read_d2">>, <<"read_d2", "relay_send">>,
    <<"relay_send", "get">> }

\* the positions of an iteration after its transaction returned
AfterSpi ==
  {"drdy_off", "relay_match", "relay_gate", "read_d0", "read_d1", "read_d2",
   "relay_send"}

\* C14: in each iteration the loop pops, checks the latches, asserts DRDY,
\* runs the transaction, deasserts DRDY and relays, in that order and once
\* each: the position only moves along that order, an iteration starts only
\* at the pop, exactly one transaction is made per iteration and none is
\* started while one is out, and DRDY is low when the next assert comes.
C14_OrderInv ==
  /\ wire.done <=> (pc \in AfterSpi \/ (pc = "get" /\ iter > 0))
  /\ drdy <=> pc \in {"spi", "drdy_off"}
  /\ nus.done => pc = "get"
  /\ pc = "drdy_on" => ~drdy

C14_OrderStep ==
  /\ pc' # pc => <<pc, pc'>> \in LoopOrder
  /\ iter' # iter => (pc = "get" /\ pc' = "chk_disc" /\ iter' = iter + 1)
  /\ wire' # wire => (pc \in {"get", "spi"} /\ pc' # pc)
  /\ (pc = "spi" /\ pc' # pc) => (~wire.done /\ wire'.done /\ drdy /\ drdy')

C14_IterationOrder == []C14_OrderInv /\ [][C14_OrderStep]_vars

\* C14 witness: the second iteration has run through every step, brake and
\* relay send included, and is back at the pop.
C14_Witness ==
  /\ pc = "get"
  /\ iter = 2
  /\ wire.done
  /\ "disc" \in wire.sub
  /\ nus.done


\* last-send or backoff-until changes in this step
RateStateChanges ==
  \/ last_nus_send_ms' # last_nus_send_ms
  \/ nus_send_backoff_until_ms' # nus_send_backoff_until_ms

\* the step is the bt_nus_send call and what follows it
SendStep == pc = "relay_send" /\ pc' = "get" /\ nus'.done

\* what each step of the relay does to the rate-limiter state
C15_RelaySteps ==
  /\ (pc = "relay_match" /\ pc' # pc) =>
       /\ ~RateStateChanges
       /\ nus' = nus
       /\ (rx_buffer[1] # 165 \/ rx_buffer[2] # 96 \/ current_conn = 0)
            => pc' = "get"
  /\ (pc = "relay_gate" /\ pc' # pc) =>
       /\ ~RateStateChanges
       /\ nus' = nus
       /\ (\/ U32Lt(Uptime32, nus_send_backoff_until_ms)
           \/ ~U32GeSmall(U32Sub(Uptime32, last_nus_send_ms), 50))
            => pc' = "get"
  /\ (pc = "relay_send" /\ pc' # pc) =>
       /\ SendStep
       /\ now = Uptime32
       /\ ~U32Lt(now, nus_send_backoff_until_ms)
       /\ U32GeSmall(U32Sub(now, last_nus_send_ms), 50)
       /\ nus'.err = 0 =>
            /\ last_nus_send_ms' = now
            /\ nus_send_backoff_until_ms' = <<0, 0>>
       /\ nus'.err # 0 =>
            /\ last_nus_send_ms' = last_nus_send_ms
            /\ nus_send_backoff_until_ms' = U32Add(now, 3000)
  /\ (nus' # nus /\ nus'.done) => SendStep

\* C15 as stated: the relay's no-send paths leave last-send and
\* backoff-until alone, a send sets them as described, and nothing but a
\* send attempt changes them.
C15_OnlySendChanges ==
  [][C15_RelaySteps /\ (RateStateChanges => SendStep)]_vars

\* C15 amended: as stated, except that disconnected() of the connected
\* peer also changes the state: it sets backoff-until to 0 and leaves
\* last-send alone.
C15_SendOrDisconnectChanges ==
  [][/\ C15_RelaySteps
     /\ RateStateChanges =>
          \/ SendStep
          \/ /\ cb = "disc_unref" /\ cb' = "idle"
             /\ nus_send_backoff_until_ms' = <<0, 0>>
             /\ last_nus_send_ms' = last_nus_send_ms]_vars

\* C15 witness: a failed send has armed the backoff and left last-send at
\* its initial value.
C15_Witness ==
  /\ pc = "get"
  /\ nus.done
  /\ nus.err # 0
  /\ nus_send_backoff_until_ms = U32Add(Uptime32, 3000)
  /\ last_nus_send_ms = <<0, 0>>


\* the 11 bytes relayed for header bytes h[1..4] and distances d[1..3]
RelayOf(h, d) ==
  LET p == << h[1], h[2], h[3], h[4],
              d[1] \div 256, d[1] % 256, d[2] \div 256, d[2] % 256,
              d[3] \div 256, d[3] % 256 >>
  IN  Append(p, (p[2] + p[3] + p[4] + p[5] + p[6] + p[7] + p[8] + p[9]
                   + p[10]) % 256)

\* C16: the checksum byte of the received frame takes no part in the relay:
\* the 11 bytes sent are a function of bytes 0..3 and the distances read,
\* the relay goes on to the gate exactly when bytes 0 and 1 are A5 60 and a
\* peer is connected, and the gate decides on the uptime and the
\* rate-limiter state alone; so two frames that differ only in byte 4 are
\* relayed alike.
C16_SameBytes ==
  nus.done => nus.buf = RelayOf(SubSeq(nus.rx, 1, 4), nus.d)

C16_SameDecision ==
  /\ (pc = "relay_match" /\ pc' # pc) =>
       (pc' = "relay_gate") =
         (rx_buffer[1] = 165 /\ rx_buffer[2] = 96 /\ current_conn # 0)
  /\ (pc = "relay_gate" /\ pc' # pc) =>
       (pc' = "read_d0") =
         (/\ ~U32Lt(Uptime32, nus_send_backoff_until_ms)
          /\ U32GeSmall(U32Sub(Uptime32, last_nus_send_ms), 50))
  /\ (pc \in {"read_d0", "read_d1", "read_d2"} /\ pc' # pc) =>
       pc' \in {"read_d1", "read_d2", "relay_send"}
  /\ (pc = "relay_send" /\ pc' # pc) => nus'.done

C16_ChecksumIgnored == []C16_SameBytes /\ [][C16_SameDecision]_vars

\* C16 witness: a frame whose byte 4 is not the sum of bytes 1..3 has been
\* relayed.
C16_Witness ==
  /\ nus.done
  /\ nus.rx[5] # (nus.rx[2] + nus.rx[3] + nus.rx[4]) % 256


\* C17: a relay is made only from the frame received by this iteration's
\* transaction: when spi_transceive returned an error the iteration sends
\* nothing to the peer.
C17_NoRelayAfterError ==
  nus.done => (wire.done /\ wire.ret >= 0)


\* the positions of an iteration after both latch tests
PastChecks == {"drdy_on", "spi"} \cup AfterSpi

\* C18: latch sets are idempotent and not counted. A latch is set exactly
\* when one or more sets landed since its last clear; a set latch found by
\* its test is taken by this iteration, and the transaction of an iteration
\* that took one latch or both carries the one stop frame; once the tests
\* are past with no set landed since they began, both latches are clear;
\* and an iteration substitutes only if a set landed since the tests of the
\* iteration before began.
C18_Collapsed ==
  /\ send_brake_on_disconnect <=> nsetD >= 1
  /\ send_brake_on_queue_full <=> nsetF >= 1
  /\ (pc \in {"drdy_on", "spi"} /\ sub # {}) => tx_buffer = CanonicalStop
  /\ (wire.done /\ wire.sub # {}) => wire.frame = CanonicalStop
  /\ ((pc \in PastChecks \/ (pc = "get" /\ iter > 0)) /\ ~late) =>
       (~send_brake_on_disconnect /\ ~send_brake_on_queue_full)
  /\ sub # {} => (late \/ latePrev)

C18_Taken ==
  /\ (pc = "chk_disc" /\ pc' # pc /\ nsetD >= 1) =>
       (pc' = "clr_disc")
  /\ (pc = "chk_full" /\ pc' # pc /\ nsetF >= 1) =>
       (pc' = "clr_full")
  /\ (pc = "clr_disc" /\ pc' # pc) =>
       ("disc" \in sub' /\ ~send_brake_on_disconnect')
  /\ (pc = "clr_full" /\ pc' # pc) =>
       ("full" \in sub' /\ ~send_brake_on_queue_full')

C18_IdempotentLatches == []C18_Collapsed /\ [][C18_Taken]_vars

\* C18 witness: two pushes were rejected and the link was lost before the
\* first iteration tested the latches, that iteration transmitted the stop
\* frame, no set landed since, and the second iteration is at its
\* transaction with the dequeued command, both latches clear.
C18_Witness ==
  /\ iter = 2
  /\ pc = "spi"
  /\ sub = {}
  /\ ~late /\ ~latePrev
  /\ nmsgs - Len(accepted) >= 2
  /\ nconn = 1 /\ link = NULL
  /\ stopRun # -1
  /\ tx_buffer \notin {CanonicalStop, AllZero}


\* C19: the queue-overflow latch is edge-triggered: one contiguous run of
\* rejected pushes (no accepted push in between) has the stop frame
\* transmitted once; no two transmitted stop frames answer rejections of
\* the same run.
C19_OneStopPerRun ==
  ~dupStop


\* C20: the backoff holds across the wrap of the 32-bit uptime: after a
\* send failed at time t, and as long as disconnected() has not reset the
\* backoff since, no send call is made before t + 3000 ms, also when
\* t + 3000 overflows uint32_t.
C20_BackoffAcrossWrap ==
  (nus.done /\ nus.failAt # -1) => nus.at >= nus.failAt + 3000

====
